---- MODULE Spec2Model ----
(***************************************************************************)
(* LogarithmicMapper (qiskit_nature/mappers/second_quantization/           *)
(* logarithmic_mapper.py): the spin-to-qubit mapping of a SpinOp.          *)
(*                                                                         *)
(* Matrices are tuples of rows with integer entries.  A PauliSumOp is kept *)
(* as the pair (num_qubits, matrix): the Pauli strings form a basis of the *)
(* 2^n x 2^n matrices, so a sum of Pauli strings with equal strings'       *)
(* coefficients added is determined by its matrix.                         *)
(***************************************************************************)
EXTENDS Integers, Sequences, FiniteSets, TLC

VARIABLES
    padding,          \* self._padding
    location,         \* self._location
    pc,               \* position of the running call
    err,              \* the error the call raised, "none" while it has not
    matrix,           \* _embed_matrix: argument
    num_qubits,       \* _embed_matrix: argument
    full_matrix,      \* _embed_matrix: return value
    spin,             \* _logarithmic_encoding: argument (a Fraction)
    spin_op_encoding, \* _logarithmic_encoding: return value
    second_q_op,      \* map: argument
    idx,              \* map: number of terms the loop has processed
    operatorlist,     \* map: the local operators of the last processed term
    qubit_ops_list,   \* map: the scaled operators of the processed terms
    qubit_op          \* map: return value

vars == <<padding, location, pc, err, matrix, num_qubits, full_matrix, spin,
          spin_op_encoding, second_q_op, idx, operatorlist, qubit_ops_list,
          qubit_op>>

\* A variable that holds nothing yet.
None == <<>>

(***************************************************************************)
(* Bounds of the model.                                                    *)
(***************************************************************************)
MaxDim == 5          \* _embed_matrix is tried on d x d matrices, d in 1..MaxDim
MaxQubits == 3       \* and on num_qubits in 0..MaxQubits
MaxTwiceSpin == 6    \* the encoder is tried on spins up to MaxTwiceSpin / 2
MaxModes == 2        \* register_length of the operators given to map
MaxExp == 2          \* largest exponent of X, Y or Z on one mode

\* Values of the padding argument of the constructor.
Paddings == {0, 1, 2}

\* Values of the location argument: the two members of EmbedLocation and a
\* value that is neither (the constructor stores whatever it is given).
Locations == {"upper", "lower", "middle"}

(***************************************************************************)
(* numpy arrays.                                                           *)
(***************************************************************************)
Pow2(n) == 2 ^ n

\* np.eye(n)
Eye(n) == [i \in 1..n |-> [j \in 1..n |-> IF i = j THEN 1 ELSE 0]]

\* np.zeros((r, c))
Zeros(r, c) == [i \in 1..r |-> [j \in 1..c |-> 0]]

\* array * scalar
Times(m, s) == [i \in 1..Len(m) |-> [j \in 1..Len(m[i]) |-> m[i][j] * s]]

\* np.block([[tl, tr], [bl, br]])
Block(tl, tr, bl, br) ==
    [i \in 1..Len(tl) |-> tl[i] \o tr[i]] \o [i \in 1..Len(bl) |-> bl[i] \o br[i]]

(***************************************************************************)
(* _embed_matrix.  The result is a record: err is "none" and val the       *)
(* returned matrix, or err names the ValueError raised.                    *)
(***************************************************************************)
Returned(v) == [err |-> "none", val |-> v]
Raised(e) == [err |-> e, val |-> None]

\* _embed_matrix with the blocks of UPPER and LOWER exchanged.
EmbedMatrixSwappedBlocks(pad, loc, m, nq) ==
    LET full_dim == Pow2(nq)
        subs_dim == Len(m)
        dim_diff == full_dim - subs_dim
    IN  IF dim_diff = 0 THEN Returned(m)
        ELSE IF dim_diff > 0 THEN
            IF loc = "upper" THEN
                Returned(Block(Times(Eye(dim_diff), pad), Zeros(dim_diff, subs_dim),
                               Zeros(subs_dim, dim_diff), m))
            ELSE IF loc = "lower" THEN
                Returned(Block(m, Zeros(subs_dim, dim_diff),
                               Zeros(dim_diff, subs_dim), Times(Eye(dim_diff), pad)))
            ELSE Raised("location")
        ELSE Raised("dimension")

\* _embed_matrix that lets a matrix one row too large through.
EmbedMatrixFitsOneLarger(pad, loc, m, nq) ==
    LET full_dim == Pow2(nq)
        subs_dim == Len(m)
        dim_diff == full_dim - subs_dim
    IN  IF dim_diff = 0 \/ dim_diff = -1 THEN Returned(m)
        ELSE IF dim_diff > 0 THEN
            IF loc = "lower" THEN
                Returned(Block(Times(Eye(dim_diff), pad), Zeros(dim_diff, subs_dim),
                               Zeros(subs_dim, dim_diff), m))
            ELSE IF loc = "upper" THEN
                Returned(Block(m, Zeros(subs_dim, dim_diff),
                               Zeros(dim_diff, subs_dim), Times(Eye(dim_diff), pad)))
            ELSE Raised("location")
        ELSE Raised("dimension")

EmbedMatrix(pad, loc, m, nq) ==
    LET full_dim == Pow2(nq)
        subs_dim == Len(m)
        dim_diff == full_dim - subs_dim
    IN  IF dim_diff = 0 THEN Returned(m)
        ELSE IF dim_diff > 0 THEN
            IF loc = "lower" THEN
                Returned(Block(Times(Eye(dim_diff), pad), Zeros(dim_diff, subs_dim),
                               Zeros(subs_dim, dim_diff), m))
            ELSE IF loc = "upper" THEN
                Returned(Block(m, Zeros(subs_dim, dim_diff),
                               Zeros(dim_diff, subs_dim), Times(Eye(dim_diff), pad)))
            ELSE Raised("location")
        ELSE Raised("dimension")

(***************************************************************************)
(* Fractions (fractions.Fraction): a numerator and a positive denominator  *)
(* in lowest terms.                                                        *)
(***************************************************************************)
RECURSIVE Gcd(_, _)
Gcd(a, b) == IF b = 0 THEN a ELSE Gcd(b, a % b)

Abs(n) == IF n < 0 THEN -n ELSE n

Fraction(n, d) == LET g == Gcd(Abs(n), d) IN [num |-> n \div g, den |-> d \div g]

\* int(f): truncation towards zero.
IntOf(f) == IF f.num >= 0 THEN f.num \div f.den ELSE -((-f.num) \div f.den)

\* 2 * spin + 1
TwiceSpinPlusOne(s) == Fraction(2 * s.num + s.den, s.den)

(***************************************************************************)
(* int(np.ceil(np.log2(dspin))).  np.log2 is exact on the powers of two    *)
(* and lies strictly between two integers elsewhere; np.log2(0) is -inf    *)
(* and np.log2 of a negative number is nan, and int() raises on both.      *)
(***************************************************************************)
RECURSIVE FloorLog2(_)
FloorLog2(d) == IF d < 2 THEN 0 ELSE 1 + FloorLog2(d \div 2)

\* The number of qubits rounded down instead of up.
CeilLog2Floored(d) ==
    IF d = 0 THEN Raised("overflow")
    ELSE IF d < 0 THEN Raised("nan")
    ELSE Returned(FloorLog2(d))

\* The number of qubits taken as 0 for a dimension <= 0 instead of raising.
CeilLog2ClampsNonPositive(d) ==
    IF d <= 0 THEN Returned(0)
    ELSE Returned(FloorLog2(d) + (IF Pow2(FloorLog2(d)) = d THEN 0 ELSE 1))

CeilLog2(d) ==
    IF d = 0 THEN Raised("overflow")
    ELSE IF d < 0 THEN Raised("nan")
    ELSE Returned(FloorLog2(d) + (IF Pow2(FloorLog2(d)) = d THEN 0 ELSE 1))

(***************************************************************************)
(* SpinOp(symbol, spin=spin).to_matrix(): the spin matrix provider.  The   *)
(* constructor rejects a spin that is no non-negative half-integer.  The   *)
(* matrices stand for S^x, S^y, S^z of dimension d with the irrational     *)
(* normalisation and the factor i of S^y left out: tridiagonal symmetric,  *)
(* tridiagonal antisymmetric, and diagonal 2m = d-1, d-3, ..., -(d-1).     *)
(***************************************************************************)
SpinOpAccepts(s) == s.den \in {1, 2} /\ s.num >= 0

SpinMatrix(symbol, d) ==
    [i \in 1..d |-> [j \in 1..d |->
        CASE symbol = "X" -> IF j = i + 1 \/ j = i - 1 THEN 1 ELSE 0
          [] symbol = "Y" -> IF j = i + 1 THEN -1 ELSE IF j = i - 1 THEN 1 ELSE 0
          [] symbol = "Z" -> IF i = j THEN d + 1 - 2 * i ELSE 0]]

(***************************************************************************)
(* Operator(matrix), SparsePauliOp.from_operator, PauliSumOp: the number   *)
(* of qubits is read off the matrix dimension.  chop() drops coefficients  *)
(* below the tolerance; an integer matrix has none.                        *)
(***************************************************************************)
PauliSumOp(m) == [num_qubits |-> FloorLog2(Len(m)), matrix |-> m]

(***************************************************************************)
(* _logarithmic_encoding: the tuple (spinx, spiny, spinz, identity), or    *)
(* the error raised on the way.                                            *)
(***************************************************************************)
LogarithmicEncoding(pad, loc, s) ==
    LET dspin == IntOf(TwiceSpinPlusOne(s))
        nq == CeilLog2(dspin)
        spin_matrices == <<SpinMatrix("X", dspin), SpinMatrix("Y", dspin),
                           SpinMatrix("Z", dspin), Eye(dspin)>>
        embedded == [k \in 1..4 |-> EmbedMatrix(pad, loc, spin_matrices[k], nq.val)]
    IN  IF nq.err # "none" THEN Raised(nq.err)
        ELSE IF ~SpinOpAccepts(s) THEN Raised("spin")
        ELSE IF \E k \in 1..4 : embedded[k].err # "none"
             THEN Raised(embedded[CHOOSE k \in 1..4 :
                            /\ embedded[k].err # "none"
                            /\ \A l \in 1..(k - 1) : embedded[l].err = "none"].err)
        ELSE Returned([k \in 1..4 |-> PauliSumOp(embedded[k].val)])

(***************************************************************************)
(* PauliSumOp arithmetic: @ (compose: the matrix product, left operand     *)
(* first), ^ (tensor: the Kronecker product, left operand most             *)
(* significant), + and the product with a scalar.                          *)
(***************************************************************************)
RECURSIVE DotFrom(_, _, _, _)
DotFrom(row, b, j, k) ==
    IF k = 0 THEN 0 ELSE row[k] * b[k][j] + DotFrom(row, b, j, k - 1)

MatMul(a, b) ==
    [i \in 1..Len(a) |-> [j \in 1..Len(b[1]) |-> DotFrom(a[i], b, j, Len(b))]]

Kron(a, b) ==
    LET p == Len(b)
    IN  [r \in 1..(Len(a) * p) |-> [c \in 1..(Len(a) * p) |->
            a[((r - 1) \div p) + 1][((c - 1) \div p) + 1]
                * b[((r - 1) % p) + 1][((c - 1) % p) + 1]]]

Compose(A, B) ==
    [num_qubits |-> A.num_qubits, matrix |-> MatMul(A.matrix, B.matrix)]

\* @ written where ^ belongs.
TensorAsCompose(A, B) ==
    [num_qubits |-> A.num_qubits, matrix |-> MatMul(A.matrix, B.matrix)]

Tensor(A, B) ==
    [num_qubits |-> A.num_qubits + B.num_qubits, matrix |-> Kron(A.matrix, B.matrix)]

Add(A, B) ==
    [num_qubits |-> A.num_qubits,
     matrix |-> [i \in 1..Len(A.matrix) |-> [j \in 1..Len(A.matrix) |->
                    A.matrix[i][j] + B.matrix[i][j]]]]

Scale(c, A) == [num_qubits |-> A.num_qubits, matrix |-> Times(A.matrix, c)]

\* reduce(operator.matmul, ops), reduce(operator.xor, ops), reduce(operator.add, ops)
\* on a non-empty list: a fold from the left.
RECURSIVE ReduceMatmul(_)
ReduceMatmul(ops) ==
    IF Len(ops) = 1 THEN ops[1]
    ELSE Compose(ReduceMatmul(SubSeq(ops, 1, Len(ops) - 1)), ops[Len(ops)])

RECURSIVE ReduceXor(_)
ReduceXor(ops) ==
    IF Len(ops) = 1 THEN ops[1]
    ELSE Tensor(ReduceXor(SubSeq(ops, 1, Len(ops) - 1)), ops[Len(ops)])

\* A sum that keeps only its last operand.
ReduceAddKeepsLast(ops) == ops[Len(ops)]

RECURSIVE ReduceAdd(_)
ReduceAdd(ops) ==
    IF Len(ops) = 1 THEN ops[1]
    ELSE Add(ReduceAdd(SubSeq(ops, 1, Len(ops) - 1)), ops[Len(ops)])

\* [op] * n
Repeat(op, n) == [k \in 1..n |-> op]

\* The list left in mode order.
ReversedForgotten(ops) == ops

\* reversed(ops)
Reversed(ops) == [k \in 1..Len(ops) |-> ops[Len(ops) + 1 - k]]

(***************************************************************************)
(* map.  enc is the tuple (spinx, spiny, spinz, identity).                 *)
(***************************************************************************)
\* The factors multiplied in the order Z, Y, X.
OperatorOnSpinZYX(enc, n_x, n_y, n_z) ==
    LET operator_on_spin_i ==
            (IF n_z > 0 THEN <<ReduceMatmul(Repeat(enc[3], n_z))>> ELSE <<>>)
            \o (IF n_y > 0 THEN <<ReduceMatmul(Repeat(enc[2], n_y))>> ELSE <<>>)
            \o (IF n_x > 0 THEN <<ReduceMatmul(Repeat(enc[1], n_x))>> ELSE <<>>)
    IN  IF operator_on_spin_i # <<>> THEN ReduceMatmul(operator_on_spin_i)
        ELSE enc[4]

\* The Z operator taken where the encoded Identity belongs.
OperatorOnSpinWrongIdentity(enc, n_x, n_y, n_z) ==
    LET operator_on_spin_i ==
            (IF n_x > 0 THEN <<ReduceMatmul(Repeat(enc[1], n_x))>> ELSE <<>>)
            \o (IF n_y > 0 THEN <<ReduceMatmul(Repeat(enc[2], n_y))>> ELSE <<>>)
            \o (IF n_z > 0 THEN <<ReduceMatmul(Repeat(enc[3], n_z))>> ELSE <<>>)
    IN  IF operator_on_spin_i # <<>> THEN ReduceMatmul(operator_on_spin_i)
        ELSE enc[3]

\* The body of the loop over the modes: the operator on one spin.
OperatorOnSpin(enc, n_x, n_y, n_z) ==
    LET operator_on_spin_i ==
            (IF n_x > 0 THEN <<ReduceMatmul(Repeat(enc[1], n_x))>> ELSE <<>>)
            \o (IF n_y > 0 THEN <<ReduceMatmul(Repeat(enc[2], n_y))>> ELSE <<>>)
            \o (IF n_z > 0 THEN <<ReduceMatmul(Repeat(enc[3], n_z))>> ELSE <<>>)
    IN  IF operator_on_spin_i # <<>> THEN ReduceMatmul(operator_on_spin_i)
        ELSE enc[4]

\* operatorlist after the loop over the modes of term i.
OperatorList(enc, op, i) ==
    [m \in 1..Len(op.x[i]) |-> OperatorOnSpin(enc, op.x[i][m], op.y[i][m], op.z[i][m])]

\* What term i appends to qubit_ops_list.
TermOperator(op, i, ops) == Scale(op.coeffs[i], ReduceXor(Reversed(ops)))

\* The whole of map as a function of the mapper's fields and the operator.
MapOp(pad, loc, op) ==
    LET enc == LogarithmicEncoding(pad, loc, op.spin)
    IN  IF enc.err # "none" THEN Raised(enc.err)
        ELSE Returned(ReduceAdd([i \in 1..Len(op.coeffs) |->
                        TermOperator(op, i, OperatorList(enc.val, op, i))]))

(***************************************************************************)
(* Inputs.                                                                 *)
(***************************************************************************)
\* Matrices handed to _embed_matrix: one with d * d distinct non-zero
\* entries, a spin matrix and the identity.
InputMatrix(d) == [i \in 1..d |-> [j \in 1..d |-> d * (i - 1) + j]]

MatrixInputs == UNION {{InputMatrix(d), SpinMatrix("X", d), Eye(d)} : d \in 1..MaxDim}

\* Spins handed to _logarithmic_encoding: the multiples of 1/4 from
\* -MaxTwiceSpin/4 to MaxTwiceSpin/2; every other one is a half-integer.
SpinInputs == {Fraction(q, 4) : q \in (-MaxTwiceSpin)..(2 * MaxTwiceSpin)}

\* Operators handed to map.  A SpinOp holds a valid positive spin, the
\* coefficients of its terms and, per term, the exponents of X, Y and Z on
\* each mode.
MapSpins == {Fraction(1, 2), Fraction(1, 1), Fraction(3, 2)}

Coeffs == {-2, 3}

Triples == (0..MaxExp) \X (0..MaxExp) \X (0..MaxExp)

FillTriples == {<<0, 0, 0>>, <<0, 1, 1>>}

PairTriples == {<<0, 0, 0>>, <<0, 0, 1>>}

\* terms: a tuple of records [coeff, exps], exps a triple per mode.
SpinOp(s, terms) ==
    [spin |-> s,
     coeffs |-> [i \in 1..Len(terms) |-> terms[i].coeff],
     x |-> [i \in 1..Len(terms) |-> [m \in 1..Len(terms[i].exps) |-> terms[i].exps[m][1]]],
     y |-> [i \in 1..Len(terms) |-> [m \in 1..Len(terms[i].exps) |-> terms[i].exps[m][2]]],
     z |-> [i \in 1..Len(terms) |-> [m \in 1..Len(terms[i].exps) |-> terms[i].exps[m][3]]]]

TermsOver(M, triples) == [coeff : Coeffs, exps : [1..M -> triples]]

\* One mode, one term, every triple of exponents.
OneModeOps == {SpinOp(s, <<t>>) : s \in MapSpins, t \in TermsOver(1, Triples)}

\* One term on 2..MaxModes modes.
OneTermOps ==
    UNION {{SpinOp(s, <<t>>) : s \in MapSpins, t \in TermsOver(M, FillTriples)} :
           M \in 2..MaxModes}

\* Two terms on up to MaxModes modes, the second one 3 X on every mode.
TwoTermOps ==
    UNION {{SpinOp(s, <<t1, [coeff |-> 3, exps |-> [m \in 1..M |-> <<1, 0, 0>>]]>>) :
                s \in MapSpins, t1 \in TermsOver(M, PairTriples)} :
           M \in 1..MaxModes}

SpinOps == OneModeOps \cup OneTermOps \cup TwoTermOps

\* The operator holding only term i of op.
SingleTerm(op, i) ==
    [spin |-> op.spin, coeffs |-> <<op.coeffs[i]>>,
     x |-> <<op.x[i]>>, y |-> <<op.y[i]>>, z |-> <<op.z[i]>>]

NumModes(op) == Len(op.x[1])

NumTerms(op) == Len(op.coeffs)

(***************************************************************************)
(* __init__ followed by one call of _embed_matrix.                         *)
(***************************************************************************)
InitEmbed ==
    /\ padding \in Paddings
    /\ location \in Locations
    /\ matrix \in MatrixInputs
    /\ num_qubits \in 0..MaxQubits
    /\ pc = "embed"
    /\ err = "none"
    /\ full_matrix = None
    /\ spin = None
    /\ spin_op_encoding = None
    /\ second_q_op = None
    /\ idx = 0
    /\ operatorlist = None
    /\ qubit_ops_list = None
    /\ qubit_op = None

Embed ==
    /\ pc = "embed"
    /\ LET r == EmbedMatrix(padding, location, matrix, num_qubits)
       IN  /\ err' = r.err
           /\ full_matrix' = r.val
           /\ pc' = IF r.err = "none" THEN "returned" ELSE "raised"
    /\ UNCHANGED <<padding, location, matrix, num_qubits, spin, spin_op_encoding,
                   second_q_op, idx, operatorlist, qubit_ops_list, qubit_op>>

NextEmbed == Embed

SpecEmbed == InitEmbed /\ [][NextEmbed]_vars

(***************************************************************************)
(* __init__ followed by one call of _logarithmic_encoding.                 *)
(***************************************************************************)
InitEncode ==
    /\ padding \in Paddings
    /\ location \in Locations
    /\ spin \in SpinInputs
    /\ pc = "encode"
    /\ err = "none"
    /\ matrix = None
    /\ num_qubits = None
    /\ full_matrix = None
    /\ spin_op_encoding = None
    /\ second_q_op = None
    /\ idx = 0
    /\ operatorlist = None
    /\ qubit_ops_list = None
    /\ qubit_op = None

\* num_qubits keeps the encoder's local of that name when line 132 returned.
Encode ==
    /\ pc = "encode"
    /\ LET r == LogarithmicEncoding(padding, location, spin)
           nq == CeilLog2(IntOf(TwiceSpinPlusOne(spin)))
       IN  /\ err' = r.err
           /\ spin_op_encoding' = r.val
           /\ num_qubits' = nq.val
           /\ pc' = IF r.err = "none" THEN "encoded" ELSE "raised"
    /\ UNCHANGED <<padding, location, matrix, full_matrix, spin, second_q_op, idx,
                   operatorlist, qubit_ops_list, qubit_op>>

NextEncode == Encode

SpecEncode == InitEncode /\ [][NextEncode]_vars

(***************************************************************************)
(* __init__ followed by one call of map.                                   *)
(***************************************************************************)
Init ==
    /\ padding \in Paddings
    /\ location \in Locations
    /\ second_q_op \in SpinOps
    /\ spin = second_q_op.spin
    /\ pc = "map"
    /\ err = "none"
    /\ matrix = None
    /\ num_qubits = None
    /\ full_matrix = None
    /\ spin_op_encoding = None
    /\ idx = 0
    /\ operatorlist = None
    /\ qubit_ops_list = <<>>
    /\ qubit_op = None

\* Line 86: the encoding of the spin matrices, or the error it raises.
MapEncode ==
    /\ pc = "map"
    /\ LET r == LogarithmicEncoding(padding, location, second_q_op.spin)
       IN  /\ err' = r.err
           /\ spin_op_encoding' = r.val
           /\ pc' = IF r.err = "none" THEN "loop" ELSE "raised"
    /\ UNCHANGED <<padding, location, matrix, num_qubits, full_matrix, spin,
                   second_q_op, idx, operatorlist, qubit_ops_list, qubit_op>>

\* Lines 87-113: one pass of the loop over the terms.
MapTerm ==
    /\ pc = "loop"
    /\ idx < NumTerms(second_q_op)
    /\ LET ops == OperatorList(spin_op_encoding, second_q_op, idx + 1)
       IN  /\ operatorlist' = ops
           /\ qubit_ops_list' = Append(qubit_ops_list,
                                       TermOperator(second_q_op, idx + 1, ops))
    /\ idx' = idx + 1
    /\ UNCHANGED <<padding, location, pc, err, matrix, num_qubits, full_matrix, spin,
                   spin_op_encoding, second_q_op, qubit_op>>

\* Lines 115-117: the sum of the terms' operators is returned.
MapSum ==
    /\ pc = "loop"
    /\ idx = NumTerms(second_q_op)
    /\ qubit_op' = ReduceAdd(qubit_ops_list)
    /\ pc' = "done"
    /\ UNCHANGED <<padding, location, err, matrix, num_qubits, full_matrix, spin,
                   spin_op_encoding, second_q_op, idx, operatorlist, qubit_ops_list>>

Next == MapEncode \/ MapTerm \/ MapSum

Spec == Init /\ [][Next]_vars

(***************************************************************************)
(* Properties of _embed_matrix (SpecEmbed).                                *)
(***************************************************************************)
EmbedEnded == pc \in {"returned", "raised"} /\ matrix # None

SubsDim == Len(matrix)

FullDim == Pow2(num_qubits)

IsSquare(m, n) == Len(m) = n /\ \A i \in 1..n : Len(m[i]) = n

\* The entry the docstring's block matrix has at (i, j), for a matrix of
\* dimension d embedded with dim_diff rows of padding.
BlockEntry(i, j) ==
    LET d == SubsDim
        diff == FullDim - SubsDim
    IN  IF location = "upper" THEN
            IF i <= d /\ j <= d THEN matrix[i][j]
            ELSE IF i > d /\ j > d THEN (IF i = j THEN padding ELSE 0)
            ELSE 0
        ELSE
            IF i > diff /\ j > diff THEN matrix[i - diff][j - diff]
            ELSE IF i <= diff /\ j <= diff THEN (IF i = j THEN padding ELSE 0)
            ELSE 0

C7_DimensionError ==
    EmbedEnded =>
        /\ (SubsDim > FullDim) => (pc = "raised" /\ err = "dimension" /\ full_matrix = None)
        /\ (SubsDim <= FullDim) => err # "dimension"

C7_Witness ==
    /\ pc = "raised"
    /\ err = "dimension"
    /\ matrix # None
    /\ Len(matrix) = 5
    /\ num_qubits = 2

\* C8: with a location that is neither UPPER nor LOWER, every call whose
\* matrix fits (dimension <= 2^num_qubits) raises the location error.
C8_LocationError ==
    (EmbedEnded /\ location \notin {"upper", "lower"} /\ SubsDim <= FullDim) =>
        (pc = "raised" /\ err = "location")

(***************************************************************************)
(* Properties of _logarithmic_encoding (SpecEncode).                       *)
(***************************************************************************)
EncodeEnded == pc \in {"encoded", "raised"} /\ second_q_op = None /\ spin # None

\* spin is one of 1/2, 1, 3/2, ..., MaxTwiceSpin / 2.
IsTestedSpin(s) ==
    /\ s.den \in {1, 2}
    /\ s.num >= 1
    /\ 2 * s.num <= MaxTwiceSpin * s.den

\* 2S + 1 of a half-integer spin.
DimOf(s) == IF s.den = 1 THEN 2 * s.num + 1 ELSE s.num + 1

\* C4: for S in 1/2 .. MaxTwiceSpin/2 the encoder's num_qubits is the
\* smallest n with 2^n >= 2S+1, the embedding never raises the dimension
\* error, and the encoded operators are 2^n square on n qubits.
C4_MinimalQubits ==
    (EncodeEnded /\ IsTestedSpin(spin)) =>
        /\ num_qubits \in Nat
        /\ Pow2(num_qubits) >= DimOf(spin)
        /\ num_qubits > 0 => Pow2(num_qubits - 1) < DimOf(spin)
        /\ err \in {"none", "location"}
        /\ pc = "encoded" =>
              \A k \in 1..4 :
                  /\ spin_op_encoding[k].num_qubits = num_qubits
                  /\ IsSquare(spin_op_encoding[k].matrix, Pow2(num_qubits))

C4_Witness ==
    /\ pc = "encoded"
    /\ second_q_op = None
    /\ spin = Fraction(5, 2)
    /\ num_qubits = 3
    /\ Len(spin_op_encoding[1].matrix) = 8

\* A spin that is a non-negative half-integer.
IsValidSpin(s) == s.den \in {1, 2} /\ s.num >= 0

TermProcessed == pc = "loop" /\ idx >= 1

\* The smallest n with 2^n >= d.
MinQubits(d) == CHOOSE n \in 0..d : Pow2(n) >= d /\ (n = 0 \/ Pow2(n - 1) < d)

\* The matrix product of k copies of m; the unit matrix for k = 0.
RECURSIVE MatPow(_, _)
MatPow(m, k) == IF k = 0 THEN Eye(Len(m)) ELSE MatMul(MatPow(m, k - 1), m)

\* C1: the local operator of every mode of a processed term is the encoded
\* Identity when its exponents are all 0, and otherwise the matrix product
\* Xq^a . Yq^b . Zq^c in that order, each power a repeated matrix product
\* and a factor with exponent 0 left out.
C1_LocalOperator ==
    TermProcessed =>
        \A m \in 1..NumModes(second_q_op) :
            LET a == second_q_op.x[idx][m]
                b == second_q_op.y[idx][m]
                c == second_q_op.z[idx][m]
                Xq == spin_op_encoding[1].matrix
                Yq == spin_op_encoding[2].matrix
                Zq == spin_op_encoding[3].matrix
            IN  IF a = 0 /\ b = 0 /\ c = 0
                THEN operatorlist[m] = spin_op_encoding[4]
                ELSE operatorlist[m].matrix =
                        MatMul(MatMul(MatPow(Xq, a), MatPow(Yq, b)), MatPow(Zq, c))

C1_Witness ==
    /\ TermProcessed
    /\ spin = Fraction(1, 1)
    /\ second_q_op.x[idx][1] = 2
    /\ second_q_op.y[idx][1] = 1
    /\ second_q_op.z[idx][1] = 1
    /\ operatorlist[1] # spin_op_encoding[4]

\* The entry at (r, c), counted from 0, of the tensor product in which mode
\* 1 is the least significant factor and the last mode the most significant.
RECURSIVE TensorEntry(_, _, _, _)
TensorEntry(ops, r, c, m) ==
    IF m > Len(ops) THEN 1
    ELSE LET D == Len(ops[m].matrix)
         IN  ops[m].matrix[(r % D) + 1][(c % D) + 1]
                * TensorEntry(ops, r \div D, c \div D, m + 1)

RECURSIVE ProductOfDims(_, _)
ProductOfDims(ops, m) ==
    IF m > Len(ops) THEN 1 ELSE Len(ops[m].matrix) * ProductOfDims(ops, m + 1)

\* C2: the operator a term adds to qubit_ops_list is the tensor product of
\* its local operators with the last mode leftmost (most significant) and
\* mode 0 rightmost, times the term's coefficient.
C2_ReverseTensor ==
    TermProcessed =>
        LET dim == ProductOfDims(operatorlist, 1)
            term == qubit_ops_list[idx].matrix
        IN  /\ IsSquare(term, dim)
            /\ \A r, c \in 0..(dim - 1) :
                   term[r + 1][c + 1] =
                       second_q_op.coeffs[idx] * TensorEntry(operatorlist, r, c, 1)

C2_Witness ==
    /\ TermProcessed
    /\ NumModes(second_q_op) = 2
    /\ operatorlist[1] # operatorlist[2]
    /\ spin = Fraction(1, 1)
    /\ qubit_ops_list[idx] # Scale(second_q_op.coeffs[idx],
                                   Tensor(operatorlist[1], operatorlist[2]))

\* C5: map of an operator with two terms is the sum of map of each of its
\* terms alone.
C5_Linearity ==
    (pc = "done" /\ NumTerms(second_q_op) = 2) =>
        LET first == MapOp(padding, location, SingleTerm(second_q_op, 1))
            second == MapOp(padding, location, SingleTerm(second_q_op, 2))
        IN  /\ first.err = "none"
            /\ second.err = "none"
            /\ qubit_op = Add(first.val, second.val)

C5_Witness ==
    /\ pc = "done"
    /\ NumTerms(second_q_op) = 2
    /\ NumModes(second_q_op) = 2
    /\ qubit_ops_list[1] # qubit_ops_list[2]
    /\ qubit_op # qubit_ops_list[1]
    /\ qubit_op # qubit_ops_list[2]

\* The operator has one term, with all exponents 0 on every mode.
IsIdentityTerm(op) ==
    /\ NumTerms(op) = 1
    /\ \A m \in 1..NumModes(op) : op.x[1][m] = 0 /\ op.y[1][m] = 0 /\ op.z[1][m] = 0

\* The diagonal entry at k (from 0) of the encoded Identity: 1 on the d
\* physical states, the padding on the others.
IdentityDiagonal(k, d, D) ==
    IF location = "upper" THEN (IF k < d THEN 1 ELSE padding)
    ELSE (IF k >= D - d THEN 1 ELSE padding)

RECURSIVE IdentityTensorDiagonal(_, _, _, _)
IdentityTensorDiagonal(r, d, D, modes) ==
    IF modes = 0 THEN 1
    ELSE IdentityDiagonal(r % D, d, D) * IdentityTensorDiagonal(r \div D, d, D, modes - 1)

\* The result is the encoded Identity tensored across the modes, times the
\* coefficient.
IsScaledIdentityTensor ==
    LET d == DimOf(spin)
        D == Pow2(MinQubits(d))
        M == NumModes(second_q_op)
        dim == D ^ M
    IN  /\ IsSquare(qubit_op.matrix, dim)
        /\ \A r, c \in 0..(dim - 1) :
               qubit_op.matrix[r + 1][c + 1] =
                   IF r = c THEN second_q_op.coeffs[1] * IdentityTensorDiagonal(r, d, D, M)
                   ELSE 0

\* A mapper that differs only in its padding returns the same operator.
PaddingIndependent ==
    \A p \in Paddings : MapOp(p, location, second_q_op) = Returned(qubit_op)

\* C6 as stated: the identity term maps to the tensored encoded Identity
\* times the coefficient, and the result does not depend on the padding,
\* for every spin.
C6_IdentityTermAnyPadding ==
    (pc = "done" /\ IsIdentityTerm(second_q_op)) =>
        (IsScaledIdentityTensor /\ PaddingIndependent)

\* C6 as amended: the identity term maps to the tensored encoded Identity
\* times the coefficient; the result does not depend on the padding when
\* 2S+1 is a power of two (the encoded Identity then has no padding block).
C6_IdentityTerm ==
    (pc = "done" /\ IsIdentityTerm(second_q_op)) =>
        /\ IsScaledIdentityTensor
        /\ (DimOf(spin) = Pow2(MinQubits(DimOf(spin)))) => PaddingIndependent

C6_Witness ==
    /\ pc = "done"
    /\ IsIdentityTerm(second_q_op)
    /\ NumModes(second_q_op) = 2
    /\ spin = Fraction(1, 2)
    /\ padding = 2
    /\ qubit_op = MapOp(0, location, second_q_op).val

\* C10: every processed term has one local operator per mode, each on
\* n = ceil(log2(2S+1)) qubits; every operator of qubit_ops_list, and the
\* result, acts on M * n qubits and is 2^(M*n) square.
C10_RegisterWidth ==
    LET n == MinQubits(DimOf(spin))
        M == NumModes(second_q_op)
        HasWidth(o) == o.num_qubits = M * n /\ IsSquare(o.matrix, Pow2(M * n))
    IN  /\ TermProcessed =>
              /\ Len(operatorlist) = M
              /\ \A m \in 1..M :
                     /\ operatorlist[m].num_qubits = n
                     /\ IsSquare(operatorlist[m].matrix, Pow2(n))
              /\ Len(qubit_ops_list) = idx
              /\ \A i \in 1..idx : HasWidth(qubit_ops_list[i])
        /\ pc = "done" => HasWidth(qubit_op)

C10_Witness ==
    /\ pc = "done"
    /\ NumTerms(second_q_op) = 2
    /\ NumModes(second_q_op) = 2
    /\ spin = Fraction(1, 1)
    /\ qubit_op.num_qubits = 4
    /\ \E m \in 1..2 : second_q_op.x[1][m] = 0 /\ second_q_op.z[1][m] = 0

====
